---- MODULE Spec2Model ----
(***************************************************************************)
(* Membership / role / invite subsystem of rafiki270/teams.                *)
(*                                                                         *)
(* Every request is a logical task that suspends at each storage call, so  *)
(* each storage call (and the synchronous code up to the next one) is one  *)
(* action.  A prisma.$transaction block is one action: it is applied       *)
(* all-or-nothing and in isolation, which is the strongest behaviour the   *)
(* storage layer can give; every interleaving found here therefore exists  *)
(* under any weaker isolation level as well.                               *)
(***************************************************************************)
EXTENDS Integers, FiniteSets, Sequences, TLC

\* ------------------------------------------------------------------ bounds
NumRequests == 2      \* requests in flight in one behaviour
MaxClock == 4         \* largest value of the wall clock (new Date())
MaxTeams == 2         \* team rows that can exist
MaxUsesInit == 2      \* largest maxUses of the invite that exists initially
MaxInvites == 2       \* invite rows that can exist

\* --------------------------------------------------------------- constants
Users == {"u1", "u2", "u3"}
NoUser == "none"       \* request.auth.user.id is absent
Ghost == "u0"          \* a verified user id whose user row does not exist
Roles == {"owner", "admin", "member"}
NoRole == "none"
NoTeam == 0
TeamIds == 1..MaxTeams
Procs == 1..NumRequests
\* normalizeSlugInput(slug || name): the slug bases a request can carry
SlugBases == {"acme", ""}

\* Strings the code takes apart (emails, domains) are sequences of characters.
Letters == {"a", "b", "c", "d", "i", "l", "n", "o", "u", "v"}

\* String.prototype.toLowerCase over the characters that occur
lowerChar(c) ==
  CASE c = "A" -> "a" [] c = "B" -> "b" [] c = "C" -> "c" [] c = "O" -> "o" [] OTHER -> c

toLowerCase(s) == [i \in 1..Len(s) |-> lowerChar(s[i])]

\* String.prototype.trim
trim(s) ==
  LET ink == {i \in 1..Len(s) : s[i] # " "}
  IN IF ink = {} THEN <<>>
     ELSE SubSeq(s, CHOOSE i \in ink : \A j \in ink : i <= j,
                    CHOOSE i \in ink : \A j \in ink : j <= i)

NoDomain == <<>>      \* allowedDomain: null
Invalid == <<"i", "n", "v", "a", "l", "i", "d">>

\* /^(?!-)[a-z0-9.-]+\.[a-z]{2,}$/i
domainPattern(s) ==
  /\ Len(s) >= 1
  /\ s[1] # "-"
  /\ \E i \in 2..(Len(s) - 2) :
       /\ s[i] = "."
       /\ \A j \in 1..(i - 1) : lowerChar(s[j]) \in Letters \cup {"0", "1", ".", "-"}
       /\ \A j \in (i + 1)..Len(s) : lowerChar(s[j]) \in Letters

\* normalizeDomain of a string value
normalizeDomain(value) ==
  LET trimmed == toLowerCase(trim(value))
  IN IF trimmed = <<>> THEN NoDomain
     ELSE IF ~domainPattern(trimmed) THEN Invalid
     ELSE trimmed

\* the allowedDomain values invites are stored with
Domains == {<<"a", ".", "c", "o">>}

\* User.email is fixed data of the user table: u1 has no email, u2 has u@A.CO,
\* u3 has v@b.co
email(u) ==
  CASE u = "u1" -> <<>>
    [] u = "u2" -> <<"u", "@", "A", ".", "C", "O">>
    [] OTHER -> <<"v", "@", "b", ".", "c", "o">>

\* (user.email || "").split("@")[1]?.toLowerCase(); undefined is <<>>
emailDomain(u) ==
  LET e == email(u)
      ats == {i \in 1..Len(e) : e[i] = "@"}
  IN IF ats = {} THEN <<>>
     ELSE LET first == CHOOSE i \in ats : \A j \in ats : i <= j
              later == {j \in ats : j > first}
              end == IF later = {} THEN Len(e)
                     ELSE (CHOOSE i \in later : \A j \in later : i <= j) - 1
          IN toLowerCase(SubSeq(e, first + 1, end))

VARIABLES
  teams,       \* Team rows: set of [id, slug]
  members,     \* TeamMember rows: set of [teamId, userId, role, createdAt]
  lastActive,  \* User.lastActiveTeamId, per user
  invites,     \* TeamInvite rows: set of [id, teamId, maxUses, usedCount, allowedDomain]
  clock,       \* wall clock read by new Date()
  req          \* per request: its inputs, its position, what it has read, its reply

vars == <<teams, members, lastActive, invites, clock, req>>

\* ----------------------------------------------------------- storage reads
\* prisma.teamMember.findUnique({ where: { teamId_userId } }): a set of 0 or 1 rows
findMember(t, u) == {m \in members : m.teamId = t /\ m.userId = u}

isMember(t, u) == findMember(t, u) # {}

roleOf(t, u) == IF isMember(t, u) THEN (CHOOSE m \in findMember(t, u) : TRUE).role ELSE NoRole

teamExists(t) == \E tm \in teams : tm.id = t

membersOf(t) == {m \in members : m.teamId = t}

\* prisma.teamMember.count({ where: { teamId, role: { in: roles }, NOT: { userId } } })
countOthers(t, roles, u) ==
  Cardinality({m \in membersOf(t) : m.role \in roles /\ m.userId # u})

\* tx.teamMember.count({ where: { teamId, role: "owner" } }) over a set of rows
ownerCount(rows, t) == Cardinality({m \in rows : m.teamId = t /\ m.role = "owner"})

\* tx.teamMember.findFirst({ where: { teamId, role: "admin" }, orderBy: { createdAt: "asc" } }):
\* the rows the query may return first (rows with equal createdAt are in no defined order)
nextAdmin(rows, t) ==
  LET admins == {m \in rows : m.teamId = t /\ m.role = "admin"}
  IN {m \in admins : \A o \in admins : m.createdAt <= o.createdAt}

getRemainingUses(maxUses, usedCount) ==
  IF maxUses = 0 THEN -1   \* null
  ELSE IF maxUses - usedCount > 0 THEN maxUses - usedCount ELSE 0

\* ----------------------------------------------------------------- requests
Idle ==
  [op |-> "none", pc |-> "idle", actor |-> NoUser, teamId |-> NoTeam,
   target |-> NoUser, newRole |-> NoRole, role |-> NoRole,
   readRole |-> NoRole, isSelf |-> FALSE, invUsed |-> 0, invMax |-> 0, existing |-> FALSE,
   domain |-> <<>>, base |-> "", body |-> [type |-> "undefined", halves |-> 0],
   slug |-> <<"", 0>>, now |-> 0,
   status |-> 0, error |-> "", promoted |-> NoUser,
   joined |-> FALSE, alreadyMember |-> FALSE, remaining |-> -1, created |-> NoTeam]

\* the reply of a finished request: the handler's locals are gone, the request's
\* route and the reply's status and error remain
reply(r, st, err) ==
  [Idle EXCEPT !.op = r.op, !.pc = "done", !.status = st, !.error = err]

\* requests are interchangeable: they start in index order
canStart(p) == /\ req[p].pc = "idle"
               /\ \A q \in Procs : q < p => req[q].pc # "idle"

\* new Date(): the clock may have advanced since it was last read
Now == {c \in {clock, clock + 1} : c <= MaxClock}

\* ------------------------------------------------------------------- guards
\* prisma.user.findUnique({ where: { id } }): user rows are fixed data
userExists(u) == u \in Users

\* the team the request is about: the explicit one, else the acting user's
\* lastActiveTeamId
targetTeam(t, u) ==
  IF t # NoTeam THEN t
  ELSE IF userExists(u) THEN lastActive[u]
  ELSE NoTeam

teamGuardNoMembership(t, u) ==
  LET target == targetTeam(t, u)
  IN IF u = NoUser THEN <<401, "missing_auth", NoTeam>>
     ELSE IF target = NoTeam THEN <<400, "missing_team", NoTeam>>
     ELSE IF ~userExists(u) THEN <<404, "user_not_found", NoTeam>>
     ELSE IF ~teamExists(target) THEN <<404, "team_not_found", NoTeam>>
     ELSE <<0, "", target>>

\* createTeamGuard, with explicit team t (NoTeam: none was given) and verified
\* user u: <<status, error, team attached>>, status 0 when the request passes
teamGuard(t, u) ==
  LET target == targetTeam(t, u)
  IN IF u = NoUser THEN <<401, "missing_auth", NoTeam>>
     ELSE IF target = NoTeam THEN <<400, "missing_team", NoTeam>>
     ELSE IF ~userExists(u) THEN <<404, "user_not_found", NoTeam>>
     ELSE IF ~teamExists(target) THEN <<404, "team_not_found", NoTeam>>
     ELSE IF ~isMember(target, u) THEN <<403, "not_a_member", NoTeam>>
     ELSE <<0, "", target>>

guardCheckNoRole(t, u) ==
  LET g == teamGuard(t, u)
  IN <<g[1], g[2]>>

\* createTeamGuard followed by createTeamRoleGuard(["owner", "admin"]): the team
\* and the membership row are loaded and attached to the request
guardCheck(t, u) ==
  LET g == teamGuard(t, u)
  IN IF g[1] # 0 THEN <<g[1], g[2]>>
     ELSE IF roleOf(g[3], u) \notin {"owner", "admin"} THEN <<403, "forbidden">>
     ELSE <<0, "">>

\* a request to a route behind createTeamGuard alone, with or without an
\* explicit team: the guard's error is the reply, or the handler runs with the
\* team and the membership attached
GuardedRequest(p) ==
  /\ canStart(p)
  /\ \E u \in Users \cup {Ghost, NoUser}, t \in TeamIds \cup {NoTeam} :
       LET r == [Idle EXCEPT !.op = "guarded", !.actor = u, !.teamId = t]
           g == teamGuard(t, u)
       IN req' = [req EXCEPT ![p] =
                    IF g[1] # 0
                    THEN [reply(r, g[1], g[2]) EXCEPT !.actor = u, !.teamId = t]
                    ELSE [reply(r, 200, "") EXCEPT !.actor = u, !.teamId = t,
                            !.created = g[3], !.role = roleOf(g[3], u)]]
  /\ UNCHANGED <<teams, members, lastActive, invites, clock>>

\* a request arrives: its preHandlers run; the handler is entered at pc `first`
\* with the membership role the guard attached (request.teamMember.role) and the
\* acting user as request.user, or the guard's error is the reply
arrive(r, first) ==
  LET g == guardCheck(r.teamId, r.actor)
  IN IF g[1] # 0 THEN reply(r, g[1], g[2])
     ELSE [r EXCEPT !.pc = first, !.role = roleOf(r.teamId, r.actor)]

\* ------------------------------------- PATCH /teams/:teamId/users/:userId
changeRoleCheckNoOwnerOnly(targetRole, newRole, actingRole) ==
  IF targetRole = NoRole THEN <<404, "member_not_found">>
  ELSE IF targetRole = "owner" THEN <<403, "owner_locked">>
  ELSE <<0, "">>

changeRoleCheck(targetRole, newRole, actingRole) ==
  IF targetRole = NoRole THEN <<404, "member_not_found">>
  ELSE IF targetRole = "owner" THEN <<403, "owner_locked">>
  ELSE IF newRole = "owner" /\ actingRole # "owner" THEN <<403, "owner_only">>
  ELSE <<0, "">>

StartChangeRole(p) ==
  /\ canStart(p)
  /\ \E u \in Users, t \in {tm.id : tm \in teams}, x \in Users, nr \in Roles :
       req' = [req EXCEPT ![p] = arrive([Idle EXCEPT !.op = "changeRole",
                 !.actor = u, !.teamId = t, !.target = x, !.newRole = nr], "cr_read")]
  /\ UNCHANGED <<teams, members, lastActive, invites, clock>>

\* findUnique of the target row and the checks on what it returned
CrRead(p) ==
  /\ req[p].pc = "cr_read"
  /\ LET r == req[p]
         tr == roleOf(r.teamId, r.target)
         c == changeRoleCheck(tr, r.newRole, r.role)
     IN req' = [req EXCEPT ![p] =
                  IF c[1] # 0 THEN reply(r, c[1], c[2])
                  ELSE [r EXCEPT !.pc = "cr_write", !.readRole = tr]]
  /\ UNCHANGED <<teams, members, lastActive, invites, clock>>

\* prisma.teamMember.update({ where: { teamId_userId }, data: { role } })
setRole(rows, t, u, nr) ==
  {IF m.teamId = t /\ m.userId = u THEN [m EXCEPT !.role = nr] ELSE m : m \in rows}

CrWrite(p) ==
  /\ req[p].pc = "cr_write"
  /\ LET r == req[p]
     IN IF isMember(r.teamId, r.target)
        THEN /\ members' = setRole(members, r.teamId, r.target, r.newRole)
             /\ req' = [req EXCEPT ![p] = reply(r, 200, "")]
        ELSE /\ members' = members
             /\ req' = [req EXCEPT ![p] = reply(r, 500, "record_not_found")]
  /\ UNCHANGED <<teams, lastActive, invites, clock>>

\* ------------------------------------ DELETE /teams/:teamId/users/:userId
StartRemoveMember(p) ==
  /\ canStart(p)
  /\ \E u \in Users, t \in {tm.id : tm \in teams}, x \in Users :
       req' = [req EXCEPT ![p] = arrive([Idle EXCEPT !.op = "removeMember",
                 !.actor = u, !.teamId = t, !.target = x], "rm_read")]
  /\ UNCHANGED <<teams, members, lastActive, invites, clock>>

removeCheck(targetRole, isSelf) ==
  IF targetRole = NoRole THEN <<404, "member_not_found">>
  ELSE IF targetRole = "owner" /\ ~isSelf THEN <<403, "owner_locked">>
  ELSE <<0, "">>

RmRead(p) ==
  /\ req[p].pc = "rm_read"
  /\ LET r == req[p]
         tr == roleOf(r.teamId, r.target)
         self == (tr # NoRole /\ r.target = r.actor)
         c == removeCheck(tr, self)
     IN req' = [req EXCEPT ![p] =
                  IF c[1] # 0 THEN reply(r, c[1], c[2])
                  ELSE [r EXCEPT !.pc = IF self THEN "rm_count" ELSE "rm_tx",
                                 !.readRole = tr, !.isSelf = self]]
  /\ UNCHANGED <<teams, members, lastActive, invites, clock>>

lastAdminOwnerNever(remainingAdminOwners) == FALSE

lastAdminOwner(remainingAdminOwners) == remainingAdminOwners = 0

RmCount(p) ==
  /\ req[p].pc = "rm_count"
  /\ LET r == req[p]
         remainingAdminOwners == countOthers(r.teamId, {"owner", "admin"}, r.target)
     IN req' = [req EXCEPT ![p] =
                  IF lastAdminOwner(remainingAdminOwners) THEN reply(r, 400, "last_admin_owner")
                  ELSE [r EXCEPT !.pc = "rm_tx"]]
  /\ UNCHANGED <<teams, members, lastActive, invites, clock>>

successionNoPromotion(rows, t, u, isSelf, targetRole) ==
  {<<rows \ {m \in rows : m.teamId = t /\ m.userId = u}, NoUser>>}

\* the succession transaction: the outcomes <<rows, promotedUserId>> it can commit
succession(rows, t, u, isSelf, targetRole) ==
  LET rest == rows \ {m \in rows : m.teamId = t /\ m.userId = u}
  IN IF isSelf /\ targetRole = "owner" /\ ownerCount(rest, t) = 0 /\ nextAdmin(rest, t) # {}
     THEN {<<setRole(rest, t, a.userId, "owner"), a.userId>> : a \in nextAdmin(rest, t)}
     ELSE {<<rest, NoUser>>}

RmTx(p) ==
  /\ req[p].pc = "rm_tx"
  /\ LET r == req[p]
     IN IF isMember(r.teamId, r.target)
        THEN \E o \in succession(members, r.teamId, r.target, r.isSelf, r.readRole) :
               /\ members' = o[1]
               /\ req' = [req EXCEPT ![p] = [reply(r, 200, "") EXCEPT !.promoted = o[2],
                             !.isSelf = r.isSelf, !.readRole = r.readRole]]
        ELSE /\ members' = members
             /\ req' = [req EXCEPT ![p] = reply(r, 500, "record_not_found")]
  /\ UNCHANGED <<teams, lastActive, invites, clock>>

\* ------------------------------------------------ POST /teams/:teamId/users
StartAddMember(p) ==
  /\ canStart(p)
  /\ \E u \in Users, t \in {tm.id : tm \in teams}, x \in Users \cup {NoUser} :
       req' = [req EXCEPT ![p] = arrive([Idle EXCEPT !.op = "addMember",
                 !.actor = u, !.teamId = t, !.target = x], "am_read")]
  /\ UNCHANGED <<teams, members, lastActive, invites, clock>>

\* user.findUnique by email (user rows are fixed), teamMember.findUnique, new Date()
AmRead(p) ==
  /\ req[p].pc = "am_read"
  /\ LET r == req[p]
     IN IF r.target = NoUser
        THEN /\ req' = [req EXCEPT ![p] = reply(r, 404, "user_not_found")]
             /\ clock' = clock
        ELSE IF isMember(r.teamId, r.target)
        THEN /\ req' = [req EXCEPT ![p] = reply(r, 409, "already_member")]
             /\ clock' = clock
        ELSE \E n \in Now :
               /\ clock' = n
               /\ req' = [req EXCEPT ![p] = [r EXCEPT !.pc = "am_create", !.now = n]]
  /\ UNCHANGED <<teams, members, lastActive, invites>>

\* @@unique([teamId, userId]): an insert of a second row for the pair is rejected
uniqueViolationNever(rows, t, u) == FALSE

uniqueViolation(rows, t, u) == \E m \in rows : m.teamId = t /\ m.userId = u

\* prisma.teamMember.create
AmCreate(p) ==
  /\ req[p].pc = "am_create"
  /\ LET r == req[p]
     IN IF uniqueViolation(members, r.teamId, r.target)
        THEN /\ members' = members
             /\ req' = [req EXCEPT ![p] = reply(r, 500, "unique_violation")]
        ELSE /\ members' = members \cup {[teamId |-> r.teamId, userId |-> r.target,
                                          role |-> "member", createdAt |-> r.now]}
             /\ req' = [req EXCEPT ![p] = reply(r, 201, "")]
  /\ UNCHANGED <<teams, lastActive, invites, clock>>

\* ------------------------------------------------------------- POST /teams
slugTakenNever(sl) == FALSE

\* prisma.team.findUnique({ where: { slug } })
slugTaken(sl) == \E tm \in teams : tm.slug = sl

\* const root = base || "team"
slugRoot(base) == IF base = "" THEN "team" ELSE base

\* a request arrives: the auth check, user.findUnique and the first candidate of
\* ensureUniqueSlug (a slug <<root, 0>> is root, <<root, n>> is root-n; no root
\* ends in a number)
StartCreateTeam(p) ==
  /\ canStart(p)
  /\ Cardinality(teams) < MaxTeams
  /\ \E u \in Users \cup {Ghost, NoUser}, b \in SlugBases :
       LET r == [Idle EXCEPT !.op = "createTeam", !.actor = u, !.base = b]
       IN req' = [req EXCEPT ![p] =
                    IF u = NoUser THEN reply(r, 401, "missing_auth")
                    ELSE IF ~userExists(u) THEN reply(r, 404, "user_not_found")
                    ELSE [r EXCEPT !.pc = "ct_slug", !.slug = <<slugRoot(b), 0>>]]
  /\ UNCHANGED <<teams, members, lastActive, invites, clock>>

\* one iteration of ensureUniqueSlug
CtSlug(p) ==
  /\ req[p].pc = "ct_slug"
  /\ LET r == req[p]
     IN IF slugTaken(r.slug)
        THEN /\ req' = [req EXCEPT ![p] = [r EXCEPT !.slug = <<r.slug[1], r.slug[2] + 1>>]]
             /\ clock' = clock
        ELSE \E n \in Now :
               /\ clock' = n
               /\ req' = [req EXCEPT ![p] = [r EXCEPT !.pc = "ct_tx", !.now = n]]
  /\ UNCHANGED <<teams, members, lastActive, invites>>

\* Team.slug @unique: a write that gives team id a slug another team has is rejected
slugViolationNever(tms, id, sl) == FALSE

slugViolation(tms, id, sl) == \E tm \in tms : tm.slug = sl /\ tm.id # id

\* the creation transaction: the rows <<teams, members, lastActive>> it commits
createTxNoMember(tms, rows, la, id, sl, u, now) ==
  <<tms \cup {[id |-> id, slug |-> sl]}, rows, [la EXCEPT ![u] = id]>>

createTx(tms, rows, la, id, sl, u, now) ==
  <<tms \cup {[id |-> id, slug |-> sl]},
    rows \cup {[teamId |-> id, userId |-> u, role |-> "owner", createdAt |-> now]},
    [la EXCEPT ![u] = id]>>

CtTx(p) ==
  /\ req[p].pc = "ct_tx"
  /\ LET r == req[p]
         id == Cardinality(teams) + 1
     IN IF slugViolation(teams, id, r.slug)
        THEN /\ UNCHANGED <<teams, members, lastActive>>
             /\ req' = [req EXCEPT ![p] = reply(r, 500, "unique_violation")]
        ELSE /\ Cardinality(teams) < MaxTeams
             /\ LET c == createTx(teams, members, lastActive, id, r.slug, r.actor, r.now)
                IN /\ teams' = c[1]
                   /\ members' = c[2]
                   /\ lastActive' = c[3]
             /\ req' = [req EXCEPT ![p] = [reply(r, 201, "") EXCEPT !.created = id]]
  /\ UNCHANGED <<invites, clock>>

\* ------------------------------------------------------ PATCH /teams/:teamId
\* body.slug is absent or blank
NoSlug == "none"

\* slugBase !== request.team.slug: a base is the slug <<base, 0>> and no other
slugIs(sl, base) == sl = <<base, 0>>

slugOf(t) == (CHOOSE tm \in teams : tm.id = t).slug

\* a request arrives, its body carrying no other settable field than slug: the
\* guards, then the comparison of the normalised slug with the attached team's
\* and the first candidate of ensureUniqueSlug
StartRename(p) ==
  /\ canStart(p)
  /\ \E u \in Users \cup {NoUser}, t \in TeamIds, b \in SlugBases \cup {NoSlug} :
       LET r == arrive([Idle EXCEPT !.op = "rename", !.actor = u, !.teamId = t, !.base = b],
                       "rn_slug")
       IN req' = [req EXCEPT ![p] =
                    IF r.pc = "done" THEN r
                    ELSE IF b = NoSlug \/ slugIs(slugOf(t), b) THEN reply(r, 200, "")
                    ELSE [r EXCEPT !.slug = <<slugRoot(b), 0>>]]
  /\ UNCHANGED <<teams, members, lastActive, invites, clock>>

\* one iteration of ensureUniqueSlug
RnSlug(p) ==
  /\ req[p].pc = "rn_slug"
  /\ LET r == req[p]
     IN req' = [req EXCEPT ![p] =
                  IF slugTaken(r.slug) THEN [r EXCEPT !.slug = <<r.slug[1], r.slug[2] + 1>>]
                  ELSE [r EXCEPT !.pc = "rn_update"]]
  /\ UNCHANGED <<teams, members, lastActive, invites, clock>>

\* prisma.team.update({ where: { id }, data }): the error of a rejected write is
\* not caught
RnUpdate(p) ==
  /\ req[p].pc = "rn_update"
  /\ LET r == req[p]
     IN IF slugViolation(teams, r.teamId, r.slug)
        THEN /\ teams' = teams
             /\ req' = [req EXCEPT ![p] = reply(r, 500, "unique_violation")]
        ELSE /\ teams' = {IF tm.id = r.teamId THEN [tm EXCEPT !.slug = r.slug] ELSE tm : tm \in teams}
             /\ req' = [req EXCEPT ![p] = [reply(r, 200, "") EXCEPT !.created = r.teamId]]
  /\ UNCHANGED <<members, lastActive, invites, clock>>

\* ------------------------------------------------ POST /invites/:token/accept
\* tokens a request can carry (an invite's token is its number; a token may
\* name no invite)
InviteIds == {1, 2}

findInvite(i) == {v \in invites : v.id = i}

exhaustedNever(maxUses, usedCount) == FALSE

exhausted(maxUses, usedCount) ==
  getRemainingUses(maxUses, usedCount) # -1 /\ getRemainingUses(maxUses, usedCount) <= 0

\* a request arrives: the auth check, teamInvite.findUnique by token and the
\* exhaustion check on the row read
StartAccept(p) ==
  /\ canStart(p)
  /\ \E u \in Users \cup {Ghost, NoUser}, i \in InviteIds :
       LET r == [Idle EXCEPT !.op = "accept", !.actor = u, !.created = i]
       IN IF u = NoUser
          THEN req' = [req EXCEPT ![p] = [reply(r, 401, "missing_auth") EXCEPT !.created = i]]
          ELSE IF findInvite(i) = {}
          THEN req' = [req EXCEPT ![p] = [reply(r, 404, "invite_not_found") EXCEPT
                                             !.actor = u, !.created = i]]
          ELSE LET v == CHOOSE v \in findInvite(i) : TRUE
                   r1 == [r EXCEPT !.teamId = v.teamId, !.invMax = v.maxUses, !.invUsed = v.usedCount]
               IN req' = [req EXCEPT ![p] =
                            IF exhausted(v.maxUses, v.usedCount)
                            THEN [reply(r1, 410, "invite_exhausted") EXCEPT
                                    !.actor = u, !.teamId = v.teamId, !.created = i]
                            ELSE [r1 EXCEPT !.pc = "ac_member"]]
  /\ UNCHANGED <<teams, members, lastActive, invites, clock>>

domainAllowedAlways(allowedDomain, u) == TRUE

domainAllowed(allowedDomain, u) ==
  \/ allowedDomain = NoDomain
  \/ /\ emailDomain(u) # <<>>
     /\ emailDomain(u) = toLowerCase(allowedDomain)

\* user.findUnique, the domain check, teamMember.findUnique
AcMember(p) ==
  /\ req[p].pc = "ac_member"
  /\ LET r == req[p]
         v == CHOOSE v \in findInvite(r.created) : TRUE
     IN req' = [req EXCEPT ![p] =
                  IF ~userExists(r.actor)
                  THEN [reply(r, 401, "user_not_found") EXCEPT
                          !.actor = r.actor, !.teamId = r.teamId, !.created = r.created]
                  ELSE IF ~domainAllowed(v.allowedDomain, r.actor)
                  THEN [reply(r, 403, "domain_restricted") EXCEPT
                          !.actor = r.actor, !.teamId = r.teamId, !.created = r.created]
                  ELSE [r EXCEPT !.pc = "ac_tx", !.existing = isMember(r.teamId, r.actor)]]
  /\ UNCHANGED <<teams, members, lastActive, invites, clock>>

\* teamInvite.update({ data: { usedCount: { increment: 1 } } })
incrementUsed(ivs, i) ==
  {IF v.id = i THEN [v EXCEPT !.usedCount = v.usedCount + 1] ELSE v : v \in ivs}

redeemCountAll(rows, ivs, i, t, u, existing, maxUses, now) ==
  IF existing THEN <<rows, ivs>>
  ELSE <<rows \cup {[teamId |-> t, userId |-> u, role |-> "member", createdAt |-> now]},
         incrementUsed(ivs, i)>>

redeemNoIncrement(rows, ivs, i, t, u, existing, maxUses, now) ==
  IF existing THEN <<rows, ivs>>
  ELSE <<rows \cup {[teamId |-> t, userId |-> u, role |-> "member", createdAt |-> now]}, ivs>>

redeemResetRole(rows, ivs, i, t, u, existing, maxUses, now) ==
  IF existing THEN <<setRole(rows, t, u, "member"), ivs>>
  ELSE <<rows \cup {[teamId |-> t, userId |-> u, role |-> "member", createdAt |-> now]},
         IF maxUses > 0 THEN incrementUsed(ivs, i) ELSE ivs>>

\* the redemption transaction: the rows <<members, invites>> it commits
redeem(rows, ivs, i, t, u, existing, maxUses, now) ==
  IF existing THEN <<rows, ivs>>
  ELSE <<rows \cup {[teamId |-> t, userId |-> u, role |-> "member", createdAt |-> now]},
         IF maxUses > 0 THEN incrementUsed(ivs, i) ELSE ivs>>

nextRemaining(maxUses, usedCount, existing) ==
  getRemainingUses(maxUses, usedCount + (IF maxUses > 0 /\ ~existing THEN 1 ELSE 0))

AcTx(p) ==
  /\ req[p].pc = "ac_tx"
  /\ LET r == req[p]
     IN IF ~r.existing /\ uniqueViolation(members, r.teamId, r.actor)
        THEN /\ UNCHANGED <<members, invites, lastActive, clock>>
             /\ req' = [req EXCEPT ![p] = [reply(r, 500, "unique_violation") EXCEPT
                           !.actor = r.actor, !.teamId = r.teamId, !.created = r.created]]
        ELSE \E n \in Now :
               LET c == redeem(members, invites, r.created, r.teamId, r.actor, r.existing, r.invMax, n)
               IN /\ members' = c[1]
                  /\ invites' = c[2]
                  /\ lastActive' = [lastActive EXCEPT ![r.actor] = r.teamId]
                  /\ clock' = IF r.existing THEN clock ELSE n
                  /\ req' = [req EXCEPT ![p] =
                       [reply(r, 200, "") EXCEPT !.actor = r.actor, !.teamId = r.teamId,
                          !.created = r.created,
                          !.joined = ~r.existing, !.alreadyMember = r.existing,
                          !.remaining = nextRemaining(r.invMax, r.invUsed, r.existing)]]
  /\ UNCHANGED teams

\* ---------------------------------------------- POST /teams/:teamId/invites
MaxUsesCap == 10000

\* body.maxUses values a request can carry: numbers, given in halves (-0.5, 1.5
\* and 10001.5), Infinity, a string, or nothing
MaxUsesInputs ==
  {[type |-> "number", halves |-> h] : h \in {-1, 3, 2 * MaxUsesCap + 3}}
  \cup {[type |-> ty, halves |-> 0] : ty \in {"infinity", "string", "undefined"}}

\* body.allowedDomain values a request can carry: "", " A.CO", "a"
DomainInputs == {<<>>, <<" ", "A", ".", "C", "O">>, <<"a">>}

\* Math.floor of the number h / 2, h >= 0
floorHalves(h) == h \div 2

clampMaxUsesNoCap(x) ==
  IF x.type = "number" /\ x.halves >= 0 THEN floorHalves(x.halves) ELSE 0

\* typeof x === "number" && Number.isFinite(x) && x >= 0
\*   ? Math.min(Math.floor(x), 10_000) : 0
clampMaxUses(x) ==
  IF x.type = "number" /\ x.halves >= 0
  THEN (IF floorHalves(x.halves) < MaxUsesCap THEN floorHalves(x.halves) ELSE MaxUsesCap)
  ELSE 0

\* a request arrives: the guards, then maxUses and allowedDomain are normalised
StartIssue(p) ==
  /\ canStart(p)
  /\ Cardinality(invites) < MaxInvites
  /\ \E u \in Users, t \in {tm.id : tm \in teams}, mx \in MaxUsesInputs, d \in DomainInputs :
       LET r == arrive([Idle EXCEPT !.op = "issue", !.actor = u, !.teamId = t,
                          !.body = mx, !.invMax = clampMaxUses(mx)], "is_create")
           normalizedDomain == normalizeDomain(d)
       IN req' = [req EXCEPT ![p] =
                    IF r.pc = "done" THEN r
                    ELSE IF normalizedDomain = Invalid THEN reply(r, 400, "invalid_domain")
                    ELSE [r EXCEPT !.domain = normalizedDomain]]
  /\ UNCHANGED <<teams, members, lastActive, invites, clock>>

\* prisma.teamInvite.create (usedCount defaults to 0) and the reply
IsCreate(p) ==
  /\ req[p].pc = "is_create"
  /\ Cardinality(invites) < MaxInvites
  /\ LET r == req[p]
         id == Cardinality(invites) + 1
     IN /\ invites' = invites \cup {[id |-> id, teamId |-> r.teamId, maxUses |-> r.invMax,
                                      usedCount |-> 0, allowedDomain |-> r.domain]}
        /\ req' = [req EXCEPT ![p] = [reply(r, 201, "") EXCEPT !.created = id, !.body = r.body,
                      !.remaining = getRemainingUses(r.invMax, 0)]]
  /\ UNCHANGED <<teams, members, lastActive, clock>>

\* --------------------------------------------------------- GET /invites/:token
StartLookup(p) ==
  /\ canStart(p)
  /\ \E i \in InviteIds :
       LET r == [Idle EXCEPT !.op = "lookup", !.created = i]
       IN IF findInvite(i) = {}
          THEN req' = [req EXCEPT ![p] = [reply(r, 404, "invite_not_found") EXCEPT !.created = i]]
          ELSE LET v == CHOOSE v \in findInvite(i) : TRUE
               IN req' = [req EXCEPT ![p] =
                            IF exhausted(v.maxUses, v.usedCount)
                            THEN [reply(r, 410, "invite_exhausted") EXCEPT !.created = i]
                            ELSE [reply(r, 200, "") EXCEPT !.created = i, !.teamId = v.teamId,
                                    !.remaining = getRemainingUses(v.maxUses, v.usedCount)]]
  /\ UNCHANGED <<teams, members, lastActive, invites, clock>>

\* the reply has been sent: the server takes the next request in its place
Finish(p) ==
  /\ req[p].pc = "done"
  /\ req' = [req EXCEPT ![p] = Idle]
  /\ UNCHANGED <<teams, members, lastActive, invites, clock>>

\* ---------------------------------------------------------------- behaviours
\* Team 1 was created by u1 with slug acme; u2 and then u3 were added since and
\* given roles by u1.
InitRows ==
  {rows \in SUBSET {[teamId |-> 1, userId |-> u, role |-> ro,
                      createdAt |-> IF u = "u2" THEN 2 ELSE 3] :
                        u \in {"u2", "u3"}, ro \in Roles} :
     /\ \A a, b \in rows : a.userId = b.userId => a = b
     /\ \A a \in rows : a.userId = "u3" => a.role # "owner"}

InitTeam ==
  /\ teams = {[id |-> 1, slug |-> <<"acme", 0>>]}
  /\ \E rows \in InitRows :
       members = rows \cup {[teamId |-> 1, userId |-> "u1", role |-> "owner", createdAt |-> 1]}
  /\ lastActive = [u \in Users |-> IF u = "u1" THEN 1 ELSE NoTeam]
  /\ clock = 3
  /\ req = [p \in Procs |-> Idle]

\* no invite has been issued yet
InitNoInvite == InitTeam /\ invites = {}

\* one invite was issued for team 1 and has not been used
Init ==
  /\ InitTeam
  /\ \E mx \in 0..MaxUsesInit, d \in Domains \cup {NoDomain} :
       invites = {[id |-> 1, teamId |-> 1, maxUses |-> mx, usedCount |-> 0, allowedDomain |-> d]}

ChangeRole(p) == StartChangeRole(p) \/ CrRead(p) \/ CrWrite(p)

RemoveMember(p) == StartRemoveMember(p) \/ RmRead(p) \/ RmCount(p) \/ RmTx(p)

Next ==
  \/ \E p \in Procs : StartChangeRole(p)
  \/ \E p \in Procs : CrRead(p)
  \/ \E p \in Procs : CrWrite(p)
  \/ \E p \in Procs : StartRemoveMember(p)
  \/ \E p \in Procs : RmRead(p)
  \/ \E p \in Procs : RmCount(p)
  \/ \E p \in Procs : RmTx(p)
  \/ \E p \in Procs : StartAddMember(p)
  \/ \E p \in Procs : AmRead(p)
  \/ \E p \in Procs : AmCreate(p)
  \/ \E p \in Procs : StartCreateTeam(p)
  \/ \E p \in Procs : CtSlug(p)
  \/ \E p \in Procs : CtTx(p)
  \/ \E p \in Procs : StartAccept(p)
  \/ \E p \in Procs : AcMember(p)
  \/ \E p \in Procs : AcTx(p)
  \/ \E p \in Procs : StartIssue(p)
  \/ \E p \in Procs : IsCreate(p)
  \/ \E p \in Procs : StartLookup(p)
  \/ \E p \in Procs : StartRename(p)
  \/ \E p \in Procs : RnSlug(p)
  \/ \E p \in Procs : RnUpdate(p)
  \/ \E p \in Procs : GuardedRequest(p)

\* every route, any two requests interleaved
Spec == Init /\ [][Next]_vars

\* role changes and removals only
NextRoles ==
  \/ \E p \in Procs : StartChangeRole(p)
  \/ \E p \in Procs : CrRead(p)
  \/ \E p \in Procs : CrWrite(p)
  \/ \E p \in Procs : StartRemoveMember(p)
  \/ \E p \in Procs : RmRead(p)
  \/ \E p \in Procs : RmCount(p)
  \/ \E p \in Procs : RmTx(p)

SpecRoles == InitNoInvite /\ [][NextRoles]_vars

\* role changes and removals, NumRequests at a time, one after another without end
NextRolesServe ==
  \/ NextRoles
  \/ \E p \in Procs : Finish(p)

SpecRolesServe == InitNoInvite /\ [][NextRolesServe]_vars

\* invite redemptions and lookups
NextInvites ==
  \/ \E p \in Procs : StartAccept(p)
  \/ \E p \in Procs : AcMember(p)
  \/ \E p \in Procs : AcTx(p)
  \/ \E p \in Procs : StartLookup(p)

SpecInvites == Init /\ [][NextInvites]_vars

\* member additions and invite issues
NextAdmin ==
  \/ \E p \in Procs : StartAddMember(p)
  \/ \E p \in Procs : AmRead(p)
  \/ \E p \in Procs : AmCreate(p)
  \/ \E p \in Procs : StartIssue(p)
  \/ \E p \in Procs : IsCreate(p)

SpecAdmin == InitNoInvite /\ [][NextAdmin]_vars

\* member additions and invite redemptions (both insert membership rows)
NextJoin ==
  \/ \E p \in Procs : StartAddMember(p)
  \/ \E p \in Procs : AmRead(p)
  \/ \E p \in Procs : AmCreate(p)
  \/ \E p \in Procs : StartAccept(p)
  \/ \E p \in Procs : AcMember(p)
  \/ \E p \in Procs : AcTx(p)

SpecJoin == Init /\ [][NextJoin]_vars

\* team creations and invite redemptions (both write lastActiveTeamId)
NextTeams ==
  \/ \E p \in Procs : StartCreateTeam(p)
  \/ \E p \in Procs : CtSlug(p)
  \/ \E p \in Procs : CtTx(p)
  \/ \E p \in Procs : StartAccept(p)
  \/ \E p \in Procs : AcMember(p)
  \/ \E p \in Procs : AcTx(p)

\* the invite issued for team 1 is unlimited and unrestricted
InitOpenInvite ==
  /\ InitTeam
  /\ invites = {[id |-> 1, teamId |-> 1, maxUses |-> 0, usedCount |-> 0, allowedDomain |-> NoDomain]}

SpecTeams == InitOpenInvite /\ [][NextTeams]_vars

\* team creations and renames (both write Team.slug)
NextSlugs ==
  \/ \E p \in Procs : StartCreateTeam(p)
  \/ \E p \in Procs : CtSlug(p)
  \/ \E p \in Procs : CtTx(p)
  \/ \E p \in Procs : StartRename(p)
  \/ \E p \in Procs : RnSlug(p)
  \/ \E p \in Procs : RnUpdate(p)

SpecSlugs == InitNoInvite /\ [][NextSlugs]_vars

\* guarded requests and team creations (which add teams and set lastActiveTeamId)
NextResolve ==
  \/ \E p \in Procs : GuardedRequest(p)
  \/ \E p \in Procs : StartCreateTeam(p)
  \/ \E p \in Procs : CtSlug(p)
  \/ \E p \in Procs : CtTx(p)

SpecResolve == InitNoInvite /\ [][NextResolve]_vars

\* removals and guarded requests (which read lastActiveTeamId)
NextLeave ==
  \/ \E p \in Procs : StartRemoveMember(p)
  \/ \E p \in Procs : RmRead(p)
  \/ \E p \in Procs : RmCount(p)
  \/ \E p \in Procs : RmTx(p)
  \/ \E p \in Procs : GuardedRequest(p)

SpecLeave == InitNoInvite /\ [][NextLeave]_vars

\* no request is being handled
Quiet == \A q \in Procs : req[q].pc \in {"idle", "done"}

\* the routes that write membership rows, one request at a time
NextSerial ==
  \/ \E p \in Procs : Quiet /\ StartChangeRole(p)
  \/ \E p \in Procs : CrRead(p)
  \/ \E p \in Procs : CrWrite(p)
  \/ \E p \in Procs : Quiet /\ StartRemoveMember(p)
  \/ \E p \in Procs : RmRead(p)
  \/ \E p \in Procs : RmCount(p)
  \/ \E p \in Procs : RmTx(p)
  \/ \E p \in Procs : Quiet /\ StartAddMember(p)
  \/ \E p \in Procs : AmRead(p)
  \/ \E p \in Procs : AmCreate(p)
  \/ \E p \in Procs : Quiet /\ StartCreateTeam(p)
  \/ \E p \in Procs : CtSlug(p)
  \/ \E p \in Procs : CtTx(p)
  \/ \E p \in Procs : Quiet /\ StartAccept(p)
  \/ \E p \in Procs : AcMember(p)
  \/ \E p \in Procs : AcTx(p)

SpecSerial == InitOpenInvite /\ [][NextSerial]_vars

\* -------------------------------------------------------------------- claims
rowsOf(rows, t) == {m \in rows : m.teamId = t}

roleIn(rows, t, u) ==
  IF \E m \in rows : m.teamId = t /\ m.userId = u
  THEN (CHOOSE m \in rows : m.teamId = t /\ m.userId = u).role
  ELSE NoRole

adminsOf(rows, t) == {m \in rows : m.teamId = t /\ m.role = "admin"}

\* request p takes a step from position pc
stepFrom(p, pc) == req[p].pc = pc /\ req'[p] # req[p]

AllDone == \A p \in Procs : req[p].pc = "done"

\* C1: every team that has a member has a member whose role is owner or admin.
C1_OwnerOrAdminPresent ==
  \A t \in TeamIds :
    rowsOf(members, t) # {} => \E m \in rowsOf(members, t) : m.role \in {"owner", "admin"}

\* C2: a capped invite is never used more often than its cap.
C2_UsedWithinCap ==
  \A v \in invites : v.maxUses > 0 => v.usedCount <= v.maxUses

\* C3: when NumRequests distinct users who were not members have accepted an
\* invite capped at NumRequests - 1 and every request has finished with a join
\* or with invite_exhausted, exactly NumRequests - 1 of them joined, usedCount
\* is NumRequests - 1 and one request was refused with invite_exhausted (410)
\* and has no membership row.
C3_CapPlusOneRace ==
  \A v \in invites :
    ( /\ AllDone
      /\ v.maxUses = NumRequests - 1
      /\ v.maxUses > 0
      /\ \A p \in Procs : /\ req[p].op = "accept"
                          /\ req[p].teamId = v.teamId
                          /\ req[p].status \in {200, 410}
                          /\ ~req[p].alreadyMember
                          /\ req[p].joined \/ ~isMember(v.teamId, req[p].actor)
      /\ \A p, q \in Procs : p # q => req[p].actor # req[q].actor )
    => /\ Cardinality({p \in Procs : req[p].joined}) = v.maxUses
       /\ v.usedCount = v.maxUses
       /\ Cardinality({p \in Procs : req[p].status = 410 /\ req[p].error = "invite_exhausted"}) = 1

\* C4: when the only owner of a team removes themself and the team has an admin,
\* the removal succeeds, an admin with the smallest createdAt becomes owner and
\* is reported as promotedUserId, and no other remaining row changes.
C4_SuccessionEarliestAdmin ==
  [][\A p \in Procs :
       LET t == req[p].teamId
           x == req[p].target
       IN ( /\ stepFrom(p, "rm_tx")
            /\ x = req[p].actor
            /\ roleIn(members, t, x) = "owner"
            /\ ownerCount(members, t) = 1
            /\ adminsOf(members, t) # {} )
          => /\ req'[p].status = 200
             /\ \E a \in adminsOf(members, t) :
                  /\ \A o \in adminsOf(members, t) : a.createdAt <= o.createdAt
                  /\ req'[p].promoted = a.userId
                  /\ members' = (members \ (findMember(t, x) \cup {a}))
                                  \cup {[a EXCEPT !.role = "owner"]}]_vars

\* C5: when two owners of a team both remove themselves, the second removal
\* does not leave the team with members and no owner.
C5_TwoOwnersLeave ==
  [][\A p, q \in Procs :
       ( /\ p # q
         /\ \A r \in Procs : req[r].op # "changeRole"
         /\ stepFrom(p, "rm_tx")
         /\ req[p].isSelf /\ req[p].readRole = "owner"
         /\ req[q].op = "removeMember" /\ req[q].pc = "done" /\ req[q].status = 200
         /\ req[q].isSelf /\ req[q].readRole = "owner"
         /\ req'[p].status = 200 )
       => \/ rowsOf(members', req[p].teamId) = {}
          \/ ownerCount(members', req[p].teamId) >= 1]_vars

\* C6: a self-removal whose count of other owners and admins is zero is refused
\* with last_admin_owner (400) and changes no row; a self-removal never reaches
\* its transaction without that count.
C6_LastAdminOwnerRefused ==
  [][\A p \in Procs :
       /\ ( /\ stepFrom(p, "rm_count")
            /\ countOthers(req[p].teamId, {"owner", "admin"}, req[p].target) = 0 )
          => /\ req'[p].pc = "done"
             /\ req'[p].status = 400
             /\ req'[p].error = "last_admin_owner"
             /\ UNCHANGED <<teams, members, lastActive, invites>>
       /\ ( /\ stepFrom(p, "rm_read")
            /\ req[p].target = req[p].actor )
          => req'[p].pc \in {"rm_count", "done"}
       /\ ( /\ stepFrom(p, "rm_tx")
            /\ req[p].target = req[p].actor )
          => req[p].isSelf]_vars

C6_Witness ==
  \E p \in Procs :
    /\ req[p].op = "removeMember"
    /\ req[p].error = "last_admin_owner"
    /\ members = {[teamId |-> 1, userId |-> "u1", role |-> "owner", createdAt |-> 1]}

\* C7: an accept by a user who is a member of the invite's team is never refused
\* as exhausted, whatever usedCount is; it replies joined=false and
\* alreadyMember=true, changes no membership row and no usedCount and sets the
\* user's lastActiveTeamId to the invite's team.
C7_ReAcceptIdempotent ==
  [][\A p \in Procs :
       /\ ( /\ stepFrom(p, "idle")
            /\ req'[p].op = "accept"
            /\ req'[p].teamId # NoTeam
            /\ isMember(req'[p].teamId, req'[p].actor) )
          => req'[p].error # "invite_exhausted"
       /\ ( /\ stepFrom(p, "ac_tx")
            /\ req[p].existing )
          => /\ req'[p].status = 200
             /\ ~req'[p].joined
             /\ req'[p].alreadyMember
             /\ members' = members
             /\ invites' = invites
             /\ lastActive'[req[p].actor] = req[p].teamId]_vars

\* C8: the creation transaction either writes the team row, the creator's owner
\* membership (the new team's only row) and the creator's lastActiveTeamId, or
\* writes nothing; no step adds a team without its owner.
C8_CreateAllOrNothing ==
  [][/\ \A p \in Procs :
          stepFrom(p, "ct_tx") =>
            \/ /\ req'[p].status = 201
               /\ ~teamExists(req'[p].created)
               /\ teams' = teams \cup {[id |-> req'[p].created, slug |-> req[p].slug]}
               /\ rowsOf(members', req'[p].created) =
                    {[teamId |-> req'[p].created, userId |-> req[p].actor,
                      role |-> "owner", createdAt |-> req[p].now]}
               /\ members' \ rowsOf(members', req'[p].created) = members
               /\ lastActive' = [lastActive EXCEPT ![req[p].actor] = req'[p].created]
            \/ /\ req'[p].status = 500
               /\ UNCHANGED <<teams, members, lastActive>>
     /\ \A tm \in teams' \ teams :
          \E m \in members' : m.teamId = tm.id /\ m.role = "owner"]_vars

C8_Witness ==
  /\ \E p \in Procs : req[p].op = "createTeam" /\ req[p].status = 201
                      /\ roleOf(req[p].created, "u2") = "owner"
                      /\ lastActive["u2"] = req[p].created
  /\ \E p \in Procs : req[p].op = "createTeam" /\ req[p].status = 500

\* C9: a membership row whose role is owner keeps role owner until it is deleted.
C9_OwnerRowKeepsRole ==
  [][\A m \in members :
       m.role = "owner" => roleIn(members', m.teamId, m.userId) \in {"owner", NoRole}]_vars

C11_OwnerRemovedOnlyBySelf ==
  [][/\ \A p \in Procs :
          ( /\ stepFrom(p, "rm_read")
            /\ roleOf(req[p].teamId, req[p].target) = "owner"
            /\ req[p].target # req[p].actor )
          => /\ req'[p].status = 403
             /\ req'[p].error = "owner_locked"
             /\ members' = members
     /\ \A m \in members :
          ( /\ m.role = "owner"
            /\ roleIn(members', m.teamId, m.userId) = NoRole )
          => \E p \in Procs : /\ stepFrom(p, "rm_tx")
                              /\ req[p].teamId = m.teamId
                              /\ req[p].target = m.userId
                              /\ req[p].actor = m.userId]_vars

\* C12: a successful removeMember replies promotedUserId = null and changes no
\* remaining row when the removed row's role was not owner, or the acting user
\* was not the removed user, or another owner remains after the delete; a
\* non-null promotedUserId names a user whose row this step changed from admin
\* to owner.
C12_PromotionOnlyOnOwnerSuccession ==
  [][\A p \in Procs :
       LET t == req[p].teamId
           x == req[p].target
           rest == members \ findMember(t, x)
       IN ( /\ stepFrom(p, "rm_tx")
            /\ req'[p].status = 200 )
          => /\ ( \/ roleIn(members, t, x) # "owner"
                  \/ x # req[p].actor
                  \/ ownerCount(rest, t) >= 1 )
                => /\ req'[p].promoted = NoUser
                   /\ members' = rest
             /\ req'[p].promoted # NoUser
                => /\ roleIn(members, t, req'[p].promoted) = "admin"
                   /\ roleIn(members', t, req'[p].promoted) = "owner"]_vars

\* C13: an addMember or invite issue request enters its handler only with the
\* acting user's membership role, which is owner or admin; otherwise (the role
\* is member) it is answered on arrival, and no arrival writes a row; every
\* membership row added by addMember and every invite row added by issue is
\* written by a request whose acting role is owner or admin.
C13_OwnerOrAdminOnly ==
  [][\A p \in Procs :
       /\ ( /\ stepFrom(p, "idle")
            /\ req'[p].op \in {"addMember", "issue"} )
          => /\ members' = members
             /\ invites' = invites
             /\ req'[p].pc # "done"
                => /\ req'[p].role = roleOf(req'[p].teamId, req'[p].actor)
                   /\ req'[p].role \in {"owner", "admin"}
       /\ ( /\ req[p].op \in {"addMember", "issue"}
            /\ req'[p] # req[p]
            /\ (members' # members \/ invites' # invites) )
          => req[p].role \in {"owner", "admin"}]_vars

C13_Witness ==
  /\ \E m \in members : m.role = "member"
  /\ \E p \in Procs : /\ req[p].op = "addMember"
                      /\ req[p].status = 403
                      /\ req[p].error = "forbidden"
  /\ \E p \in Procs : req[p].op = "issue" /\ req[p].status = 201
  /\ Cardinality(invites) = 1

\* C14: addMember replies user_not_found (404) when no user has the email and
\* already_member (409) when the user has a membership row in the team, both
\* without writing; otherwise its create inserts exactly one row, with role
\* member, for that user, replies 201 and leaves every other row and every
\* lastActiveTeamId as they were.
C14_AddMemberContract ==
  [][\A p \in Procs :
       LET t == req[p].teamId
           x == req[p].target
       IN /\ stepFrom(p, "am_read")
             => /\ UNCHANGED <<teams, members, lastActive, invites>>
                /\ x = NoUser
                   => req'[p].status = 404 /\ req'[p].error = "user_not_found"
                /\ (x # NoUser /\ isMember(t, x))
                   => req'[p].status = 409 /\ req'[p].error = "already_member"
                /\ (x # NoUser /\ ~isMember(t, x))
                   => req'[p].pc = "am_create"
          /\ stepFrom(p, "am_create")
             => /\ req'[p].status = 201
                /\ ~isMember(t, x)
                /\ members' = members \cup {[teamId |-> t, userId |-> x,
                                             role |-> "member", createdAt |-> req[p].now]}
                /\ UNCHANGED <<teams, lastActive, invites>>]_vars

\* C15: no two membership rows have the same teamId and userId, in every
\* reachable state, also after an addMember and an accept (or two of either) for
\* the same user and team have each read that the user has no membership.
C15_OneRowPerPair ==
  \A a, b \in members : (a.teamId = b.teamId /\ a.userId = b.userId) => a = b

C15_Witness ==
  \E p, q \in Procs :
    /\ req[p].op = "addMember"
    /\ req[p].status = 500
    /\ req[p].error = "unique_violation"
    /\ req[q].op = "accept"
    /\ req[q].joined
    /\ isMember(req[q].teamId, req[q].actor)

\* C16: an invite with usedCount >= maxUses > 0 keeps usedCount >= maxUses > 0
\* in every later state; every lookup and every accept of a verified user that
\* arrives while the invite is in that state is answered invite_exhausted (410),
\* and no request that arrives then creates a membership row.
C16_ExhaustedForGood ==
  [][\A v \in invites :
       (v.maxUses > 0 /\ v.usedCount >= v.maxUses)
       => /\ \E w \in invites' : /\ w.id = v.id
                                 /\ w.maxUses = v.maxUses
                                 /\ w.usedCount >= w.maxUses
          /\ \A p \in Procs :
               ( /\ stepFrom(p, "idle")
                 /\ req'[p].op \in {"lookup", "accept"}
                 /\ req'[p].created = v.id )
               => /\ req'[p].pc = "done"
                  /\ members' = members
                  /\ (req'[p].op = "lookup" \/ req'[p].actor # NoUser)
                       => /\ req'[p].status = 410
                          /\ req'[p].error = "invite_exhausted"]_vars

C16_Witness ==
  \E p, q \in Procs :
    /\ req[q].op = "accept" /\ req[q].actor = "u2" /\ req[q].joined
    /\ req[q].remaining = 0
    /\ roleOf(1, "u2") = "member"
    /\ req[p].op = "accept" /\ req[p].actor = "u3"
    /\ req[p].status = 410 /\ req[p].error = "invite_exhausted"
    /\ ~isMember(1, "u3")
    /\ \E v \in invites : v.maxUses = 1 /\ v.usedCount = 1

\* C17: an invite row is created with usedCount 0 and is never deleted; its
\* usedCount never decreases, and changes only by +1 in a redemption
\* transaction that inserts a membership row for an invite with maxUses > 0; an
\* invite with maxUses = 0 has usedCount 0 in every state and is never
\* answered invite_exhausted; no step of issue, lookup, addMember, changeRole,
\* removeMember or createTeam changes the usedCount of an existing invite.
C17_UsedCountOnlyByRedemption ==
  [][/\ \A w \in invites' :
          (\A v \in invites : v.id # w.id) => w.usedCount = 0
     /\ \A v \in invites :
          /\ v.maxUses = 0 => v.usedCount = 0
          /\ \E w \in invites' :
               /\ w.id = v.id
               /\ w.maxUses = v.maxUses
               /\ w.usedCount \in {v.usedCount, v.usedCount + 1}
               /\ w.usedCount # v.usedCount
                  => /\ v.maxUses > 0
                     /\ \E p \in Procs :
                          /\ stepFrom(p, "ac_tx")
                          /\ req[p].created = v.id
                          /\ ~isMember(v.teamId, req[p].actor)
                          /\ members' = members \cup
                               {[teamId |-> v.teamId, userId |-> req[p].actor, role |-> "member",
                                 createdAt |-> clock']}
          /\ \A p \in Procs :
               ( /\ stepFrom(p, "idle")
                 /\ req'[p].op \in {"lookup", "accept"}
                 /\ req'[p].created = v.id
                 /\ v.maxUses = 0 )
               => req'[p].error # "invite_exhausted"]_vars

C17_Witness ==
  /\ \E v \in invites : v.maxUses = 1 /\ v.usedCount = 1
  /\ \E v \in invites : v.maxUses = 0 /\ v.usedCount = 0 /\ v.id = 2
  /\ \E p \in Procs : req[p].op = "issue" /\ req[p].status = 201 /\ req[p].created = 2
  /\ \E p \in Procs : req[p].op = "accept" /\ req[p].joined /\ req[p].created = 1

\* C18: the transaction of an accept that found no membership row either
\* inserts the user's row with role member, increments the invite's usedCount
\* when maxUses > 0, sets the user's lastActiveTeamId to the invite's team and
\* replies joined, or fails and leaves membership rows, invites and
\* lastActiveTeamId as they were.
C18_RedeemAllOrNothing ==
  [][\A p \in Procs :
       LET t == req[p].teamId
           u == req[p].actor
           i == req[p].created
       IN ( /\ stepFrom(p, "ac_tx")
            /\ ~req[p].existing )
          => \/ /\ req'[p].status = 200
                /\ req'[p].joined
                /\ ~isMember(t, u)
                /\ members' = members \cup {[teamId |-> t, userId |-> u, role |-> "member",
                                             createdAt |-> clock']}
                /\ invites' = {IF v.id = i /\ v.maxUses > 0
                               THEN [v EXCEPT !.usedCount = v.usedCount + 1] ELSE v : v \in invites}
                /\ lastActive' = [lastActive EXCEPT ![u] = t]
             \/ /\ req'[p].status = 500
                /\ UNCHANGED <<members, invites, lastActive>>]_vars

C18_Witness ==
  \E p, q \in Procs :
    /\ req[p].op = "accept" /\ req[p].actor = "u3" /\ req[p].joined
    /\ req[q].op = "accept" /\ req[q].actor = "u3" /\ req[q].status = 500
    /\ roleOf(1, "u3") = "member"
    /\ lastActive["u3"] = 1
    /\ \E v \in invites : v.maxUses = 2 /\ v.usedCount = 1

\* C19: the remainingUses replied by a successful accept is the remaining uses
\* of the invite row as stored when the accept's transaction has committed.
C19_RemainingReflectsStorage ==
  [][\A p \in Procs :
       ( /\ stepFrom(p, "ac_tx")
         /\ req'[p].status = 200 )
       => \A v \in invites' :
            v.id = req[p].created
            => req'[p].remaining = getRemainingUses(v.maxUses, v.usedCount)]_vars

\* the lower-case domain of each user's email (u1 has no email)
lowerDomainOf(u) ==
  CASE u = "u1" -> <<>>
    [] u = "u2" -> <<"a", ".", "c", "o">>
    [] OTHER -> <<"b", ".", "c", "o">>

C21_FirstFreeCandidate ==
  [][\A p \in Procs :
       /\ ( /\ stepFrom(p, "idle")
            /\ req'[p].pc = "ct_slug" )
          => req'[p].slug = <<IF req'[p].base = "" THEN "team" ELSE req'[p].base, 0>>
       /\ stepFrom(p, "ct_slug")
          => LET c == req[p].slug
             IN IF \E tm \in teams : tm.slug = c
                THEN /\ req'[p].pc = "ct_slug"
                     /\ req'[p].slug = <<c[1], c[2] + 1>>
                ELSE /\ req'[p].pc = "ct_tx"
                     /\ req'[p].slug = c
                     /\ \A n \in 0..(c[2] - 1) : \E tm \in teams : tm.slug = <<c[1], n>>]_vars

C21_Witness ==
  /\ \E tm \in teams : tm.id = 1 /\ tm.slug = <<"acme", 0>>
  /\ \E tm \in teams : tm.id = 2 /\ tm.slug = <<"acme", 1>>
  /\ \E p \in Procs : req[p].op = "createTeam" /\ req[p].status = 201 /\ req[p].created = 2

\* C22: no two teams ever have the same slug, also when a creation and another
\* creation or a rename with the same base have both passed the existence check
\* before either writes: the unique index on Team.slug rejects the second write.
C22_SlugsUnique ==
  \A a, b \in teams : a.slug = b.slug => a.id = b.id

\* a creation and a rename both found the slug team free; one of them wrote it
\* and the other's write was rejected
C22_Witness ==
  /\ \E tm \in teams : tm.slug = <<"team", 0>>
  /\ \E p, q \in Procs :
       /\ req[p].op = "createTeam"
       /\ req[q].op = "rename"
       /\ {req[p].status, req[q].status} \in {{201, 500}, {200, 500}}
       /\ \E w \in {p, q} : req[w].error = "unique_violation"

\* C23: a creation whose insert hits the unique index on Team.slug either
\* completes (201) with a freshly allocated slug or is refused with a conflict
\* (409), never with the raw storage error, and a creation that does not
\* complete writes no team, no membership and no lastActiveTeamId.
C23_SlugConflictHandled ==
  [][\A p \in Procs :
       stepFrom(p, "ct_tx")
       => /\ req'[p].status \in {201, 409}
          /\ req'[p].status # 201 => UNCHANGED <<teams, members, lastActive>>]_vars

\* C24: the access resolver fails at the first failing step of a fixed order:
\* no verified user id is missing_auth (401); then neither an explicit team nor
\* a lastActiveTeamId is missing_team (400); then no user row is user_not_found
\* (404); then no team row is team_not_found (404); then no membership row is
\* not_a_member (403). It attaches the team and the membership only when every
\* step passes, so a request without a user id is never let through.
C24_ResolverOrder ==
  [][\A p \in Procs :
       ( /\ stepFrom(p, "idle")
         /\ req'[p].op = "guarded" )
       => LET u == req'[p].actor
              t == req'[p].teamId
              outcome == <<req'[p].status, req'[p].error>>
              noAuth == u = NoUser
              known == u \in Users
              target == IF t # NoTeam THEN t ELSE IF known THEN lastActive[u] ELSE NoTeam
              noTeam == target = NoTeam
              noTeamRow == ~\E tm \in teams : tm.id = target
              noRow == ~\E m \in members : m.teamId = target /\ m.userId = u
          IN /\ noAuth => outcome = <<401, "missing_auth">>
             /\ ~noAuth /\ noTeam => outcome = <<400, "missing_team">>
             /\ ~noAuth /\ ~noTeam /\ ~known => outcome = <<404, "user_not_found">>
             /\ ~noAuth /\ ~noTeam /\ known /\ noTeamRow => outcome = <<404, "team_not_found">>
             /\ ~noAuth /\ ~noTeam /\ known /\ ~noTeamRow /\ noRow
                  => outcome = <<403, "not_a_member">>
             /\ ~noAuth /\ ~noTeam /\ known /\ ~noTeamRow /\ ~noRow
                  => /\ outcome = <<200, "">>
                     /\ req'[p].created = target
                     /\ \E m \in members : /\ m.teamId = target
                                           /\ m.userId = u
                                           /\ m.role = req'[p].role
             /\ outcome # <<200, "">> => req'[p].created = NoTeam /\ req'[p].role = NoRole]_vars

\* a user who created team 2 passes the resolver without an explicit team and
\* has team 2 and their owner membership attached
C24_Witness ==
  \E p \in Procs :
    /\ req[p].op = "guarded" /\ req[p].teamId = NoTeam
    /\ req[p].status = 200 /\ req[p].created = 2 /\ req[p].role = "owner"

\* C25: a request refused because the verified acting user has no user row is
\* refused with user_not_found and status 404, in team creation and in invite
\* redemption alike; status 401 is replied only to a request without verified
\* user id.
C25_AbsentUserIs404 ==
  \A p \in Procs :
    req[p].pc = "done" /\ req[p].op \in {"createTeam", "accept", "guarded"}
    => /\ req[p].error = "user_not_found" => req[p].status = 404
       /\ req[p].status = 401 => req[p].error = "missing_auth"

\* C26: the maxUses stored by an issue is an integer from 0 to 10000: a finite
\* number not below 0 is rounded down and capped at 10000; a negative number,
\* Infinity, a value that is no number or no value is stored as 0, and the
\* request is not refused for it; the invite created has usedCount 0.
C26_MaxUsesClamped ==
  [][\A p \in Procs :
       /\ ( /\ stepFrom(p, "idle")
            /\ req'[p].op = "issue"
            /\ req'[p].pc = "done" )
          => req'[p].error \in {"missing_auth", "team_not_found", "not_a_member",
                                "forbidden", "invalid_domain"}
       /\ stepFrom(p, "is_create")
          => LET b == req[p].body
             IN /\ req'[p].status = 201
                /\ \E v \in invites' \ invites :
                     /\ invites' = invites \cup {v}
                     /\ v.id = req'[p].created
                     /\ v.usedCount = 0
                     /\ v.maxUses \in 0..10000
                     /\ IF b.type = "number" /\ b.halves >= 0
                        THEN IF b.halves >= 20000
                             THEN v.maxUses = 10000
                             ELSE 2 * v.maxUses <= b.halves /\ b.halves < 2 * v.maxUses + 2
                        ELSE v.maxUses = 0]_vars

\* maxUses 1.5 was stored as 1 and maxUses 10001.5 as 10000
C26_Witness ==
  \E p, q \in Procs :
    /\ req[p].op = "issue" /\ req[p].status = 201
    /\ req[p].body = [type |-> "number", halves |-> 3]
    /\ \E v \in invites : v.id = req[p].created /\ v.maxUses = 1 /\ v.usedCount = 0
    /\ req[q].op = "issue" /\ req[q].status = 201
    /\ req[q].body = [type |-> "number", halves |-> 20003]
    /\ \E v \in invites : v.id = req[q].created /\ v.maxUses = 10000 /\ v.usedCount = 0

\* C27: when the requests that write membership rows are handled one at a
\* time, every team that has a member has an owner.
C27_TeamsKeepOwner ==
  \A t \in TeamIds :
    (\E m \in members : m.teamId = t)
    => \E m \in members : m.teamId = t /\ m.role = "owner"

\* the owner who created team 1 has left it and the oldest admin is its owner
C27_Witness ==
  /\ \E p \in Procs : /\ req[p].op = "removeMember" /\ req[p].status = 200
                      /\ req[p].promoted # NoUser
                      /\ roleOf(1, req[p].promoted) = "owner"
  /\ ~isMember(1, "u1")

\* C28: two accepts of one invite with maxUses > 0 by the same user, who was no
\* member, started before either has committed: at most one of them joins, the
\* invite's usedCount counts the accepts that joined and no other, and the user
\* has exactly one membership row in the team.
C28_OneUsePerUser ==
  \A v \in invites :
    v.maxUses > 0
    => LET acc == {p \in Procs : /\ req[p].op = "accept"
                                 /\ req[p].pc = "done"
                                 /\ req[p].created = v.id}
       IN /\ v.usedCount = Cardinality({p \in acc : req[p].joined})
          /\ \A p, q \in acc :
               (p # q /\ req[p].actor = req[q].actor) => ~(req[p].joined /\ req[q].joined)
          /\ \A p \in acc :
               req[p].joined
               => Cardinality({m \in members : /\ m.teamId = v.teamId
                                               /\ m.userId = req[p].actor}) = 1

\* u2, no member, sent two accepts of the invite with maxUses 1; both read the
\* invite unused and no membership row; one joined and the other's transaction
\* failed, leaving usedCount 1
C28_Witness ==
  \E p, q \in Procs :
    /\ req[p].op = "accept" /\ req[p].actor = "u2" /\ req[p].joined
    /\ req[q].op = "accept" /\ req[q].actor = "u2" /\ req[q].status = 500
    /\ req[p].created = req[q].created
    /\ \E v \in invites : v.id = req[p].created /\ v.maxUses = 1 /\ v.usedCount = 1
    /\ Cardinality({m \in members : m.teamId = 1 /\ m.userId = "u2"}) = 1

\* C29: no step of an accept changes or deletes a membership row that exists;
\* the only row an accept inserts is the acting user's row in the invite's
\* team, with role member.
C29_AcceptKeepsRoles ==
  [][\A p \in Procs :
       ( /\ req[p].op = "accept"
         /\ req'[p] # req[p] )
       => /\ members \subseteq members'
          /\ \A m \in members' \ members :
               /\ m.role = "member"
               /\ m.userId = req[p].actor
               /\ m.teamId = req[p].teamId
               /\ \A v \in invites : v.id = req[p].created => v.teamId = m.teamId]_vars

\* the owner u1 accepted the invite of their own team and is still owner; u3
\* joined through it as member
C29_Witness ==
  \E p, q \in Procs :
    /\ req[p].op = "accept" /\ req[p].actor = "u1"
    /\ req[p].status = 200 /\ req[p].alreadyMember
    /\ roleOf(1, "u1") = "owner"
    /\ req[q].op = "accept" /\ req[q].actor = "u3" /\ req[q].joined
    /\ roleOf(1, "u3") = "member"

\* C30: a removeMember request passes its guards only when the acting user's
\* role in the team is owner or admin at that time, a request of a user with
\* role member being refused forbidden (403); and whenever a membership row is
\* deleted, it is deleted by the transaction of a removeMember request that
\* passed the guards with role owner or admin, for its team and its target.
C30_DeletedOnlyByOwnerOrAdmin ==
  [][/\ \A p \in Procs :
          ( /\ stepFrom(p, "idle")
            /\ req'[p].op = "removeMember" )
          => LET ro == roleIn(members, req'[p].teamId, req'[p].actor)
             IN /\ req'[p].pc # "done" => ro \in {"owner", "admin"} /\ req'[p].role = ro
                /\ ro = "member" => /\ req'[p].pc = "done"
                                    /\ req'[p].status = 403
                                    /\ req'[p].error = "forbidden"
     /\ \A m \in members :
          (~\E n \in members' : n.teamId = m.teamId /\ n.userId = m.userId)
          => \E p \in Procs : /\ stepFrom(p, "rm_tx")
                              /\ req[p].op = "removeMember"
                              /\ req[p].role \in {"owner", "admin"}
                              /\ req[p].teamId = m.teamId
                              /\ req[p].target = m.userId]_vars

\* an admin removed a member, and the removal asked for by a user with role
\* member was refused
C30_Witness ==
  \E p, q \in Procs :
    /\ req[p].op = "removeMember" /\ req[p].status = 200
    /\ ~req[p].isSelf /\ req[p].readRole = "member"
    /\ req[q].op = "removeMember" /\ req[q].status = 403 /\ req[q].error = "forbidden"
    /\ Cardinality(members) = 2

\* C31: no step of a removeMember request changes a user's lastActiveTeamId,
\* the removed user's included, so it can name a team the user has left; a
\* request of such a user without explicit team is then refused not_a_member
\* (403) by the access resolver and has no team attached.
C31_RemovalKeepsLastActive ==
  [][\A p \in Procs :
       /\ ( /\ req'[p] # req[p]
            /\ req'[p].op = "removeMember" )
          => lastActive' = lastActive
       /\ ( /\ stepFrom(p, "rm_tx")
            /\ req'[p].status = 200 )
          => /\ ~\E m \in members' : m.teamId = req[p].teamId /\ m.userId = req[p].target
             /\ lastActive'[req[p].target] = lastActive[req[p].target]
       /\ ( /\ stepFrom(p, "idle")
            /\ req'[p].op = "guarded"
            /\ req'[p].teamId = NoTeam
            /\ req'[p].actor \in Users
            /\ \E tm \in teams : tm.id = lastActive[req'[p].actor]
            /\ ~\E m \in members : /\ m.teamId = lastActive[req'[p].actor]
                                   /\ m.userId = req'[p].actor )
          => /\ req'[p].status = 403
             /\ req'[p].error = "not_a_member"
             /\ req'[p].created = NoTeam]_vars

\* u1, whose lastActiveTeamId is team 1, has left team 1; lastActiveTeamId is
\* still team 1 and u1's request without explicit team was refused
C31_Witness ==
  \E p, q \in Procs :
    /\ req[p].op = "removeMember" /\ req[p].status = 200 /\ req[p].isSelf
    /\ ~isMember(1, "u1")
    /\ lastActive["u1"] = 1
    /\ req[q].op = "guarded" /\ req[q].actor = "u1" /\ req[q].teamId = NoTeam
    /\ req[q].status = 403 /\ req[q].error = "not_a_member"

====
